---------------------------- MODULE Spec2Model ----------------------------
(***************************************************************************)
(* Model of the chat application (src/src/main.rs, src/src/lib.rs): a set  *)
(* of processes, each running the select! event loop of main() around an   *)
(* AppBehaviour (floodsub + mdns + the connected table), a startup timer   *)
(* task and a Ctrl-C handler thread, joined by a flooding transport.       *)
(***************************************************************************)
EXTENDS Integers, Sequences, FiniteSets, Bags, TLC

(***************************************************************************)
(* Bounds of the model.                                                    *)
(***************************************************************************)
\* events the users and terminals cause, over all processes: lines read from
\* stdin, shutdown signals, stdin ending or failing
MaxEnv == 1
\* payloads the peer outside the modelled processes publishes
MaxForeign == 2
\* payloads of any JSON shape the outsider publishes
MaxAny == 1

(***************************************************************************)
(* Identities and names.                                                   *)
(***************************************************************************)
\* the processes whose event loop is modelled
Procs == {1, 2}
\* a peer of the network that is not one of the modelled processes
Outsider == 3
PeerIds == Procs \cup {Outsider}

\* PeerId::to_string(): the base58 text of the identity
PeerIdToString(p) ==
    CASE p = 1 -> "12D3KooWA"
      [] p = 2 -> "12D3KooWB"
      [] OTHER -> "12D3KooWC"

\* args.name of each process
ArgsName(p) == IF p = 1 THEN "alice" ELSE "bob"

\* the lines a user may type
InputLines == {"hi"}

(***************************************************************************)
(* JSON payloads: an object is a function from field names to values, a    *)
(* value carries its JSON type and its text; an array is the record of its *)
(* sequence of values.                                                     *)
(***************************************************************************)
JString(s) == [t |-> "string", v |-> s]
JBool(b) == [t |-> "bool", v |-> IF b THEN "true" ELSE "false"]
JArray(elements) == [array |-> elements]

HasField(data, f, type) == f \in DOMAIN data /\ data[f].t = type
\* serde_json's deserialize_struct also takes a JSON array, which the derived
\* visit_seq reads as the fields in declaration order; the array has to end
\* after the last field
IsArrayOf(data, types) ==
    /\ "array" \in DOMAIN data
    /\ Len(data["array"]) = Len(types)
    /\ \A i \in 1..Len(types) : data["array"][i].t = types[i]

\* serde_json::to_string(&ChatMessage { message })
to_string_ChatMessage(message) == [message |-> JString(message)]
\* serde_json::to_string(&SayHello { name, hello })
to_string_SayHello(name, hello) == [name |-> JString(name), hello |-> JBool(hello)]
\* serde_json::to_string(&IntroduceMyself { name, receiver })
to_string_IntroduceMyself(resp) ==
    [name |-> JString(resp.name), receiver |-> JString(resp.receiver)]

\* serde_json::from_slice::<ChatMessage>: the derived Deserialize needs the
\* field `message` as a string and ignores unknown fields
from_slice_ChatMessage(data) ==
    IF HasField(data, "message", "string")
    THEN [ok |-> TRUE, message |-> data["message"].v]
    ELSE IF IsArrayOf(data, <<"string">>)
    THEN [ok |-> TRUE, message |-> data["array"][1].v]
    ELSE [ok |-> FALSE]

\* mutant: receiver is optional (#[serde(default)])
from_slice_IntroduceMyself_default(data) ==
    IF HasField(data, "name", "string")
    THEN [ok |-> TRUE, name |-> data["name"].v,
          receiver |-> IF HasField(data, "receiver", "string")
                       THEN data["receiver"].v ELSE ""]
    ELSE [ok |-> FALSE]

\* serde_json::from_slice::<IntroduceMyself>
from_slice_IntroduceMyself(data) ==
    IF HasField(data, "name", "string") /\ HasField(data, "receiver", "string")
    THEN [ok |-> TRUE, name |-> data["name"].v, receiver |-> data["receiver"].v]
    ELSE IF IsArrayOf(data, <<"string", "string">>)
    THEN [ok |-> TRUE, name |-> data["array"][1].v, receiver |-> data["array"][2].v]
    ELSE [ok |-> FALSE]

\* serde_json::from_slice::<SayHello>
from_slice_SayHello(data) ==
    IF HasField(data, "name", "string") /\ HasField(data, "hello", "bool")
    THEN [ok |-> TRUE, name |-> data["name"].v, hello |-> (data["hello"].v = "true")]
    ELSE IF IsArrayOf(data, <<"string", "bool">>)
    THEN [ok |-> TRUE, name |-> data["array"][1].v,
          hello |-> (data["array"][2].v = "true")]
    ELSE [ok |-> FALSE]

\* the message the chain of if-let Ok(resp) = from_slice(...) arrives at
decode(data) ==
    LET chat == from_slice_ChatMessage(data)
        intro == from_slice_IntroduceMyself(data)
        hello == from_slice_SayHello(data)
    IN  IF chat.ok THEN [kind |-> "ChatMessage", message |-> chat.message]
        ELSE IF intro.ok
        THEN [kind |-> "IntroduceMyself", name |-> intro.name,
              receiver |-> intro.receiver]
        ELSE IF hello.ok
        THEN [kind |-> "SayHello", name |-> hello.name, hello |-> hello.hello]
        ELSE [kind |-> "Err"]

(***************************************************************************)
(* HashMap<String, String>                                                 *)
(***************************************************************************)
HashMap_new == [k \in {} |-> ""]
\* mutant: the first name of a key is kept (entry().or_insert())
HashMap_insert_keep_first(m, k, v) ==
    IF k \in DOMAIN m THEN m ELSE [x \in DOMAIN m \cup {k} |-> IF x = k THEN v ELSE m[x]]
HashMap_insert(m, k, v) == [x \in DOMAIN m \cup {k} |-> IF x = k THEN v ELSE m[x]]
HashMap_remove(m, k) == [x \in DOMAIN m \ {k} |-> m[x]]

(***************************************************************************)
(* State.                                                                  *)
(***************************************************************************)
VARIABLES
    status,        \* per process: "running", "exited" (process::exit), "panicked"
    connected,     \* AppBehaviour.connected
    response_chan, \* the (response_sender, response_rcv) channel's queue
    init_chan,     \* messages in the (init_sender, init_rcv) channel
    exit_chan,     \* messages in the (exit_sender, exit_rcv) channel
    timer,         \* the spawned startup task: "sleeping" or "done"
    ctrlc,         \* the Ctrl-C handler thread: "idle", "sleeping", "exited"
    stdin_read,    \* lines read from stdin so far
    partial_view,  \* floodsub's flood targets (add/remove_node_..._partial_view)
    inflight,      \* per process: bag of floodsub messages sent to it, not yet handled
    console,       \* per process: lines printed by println!
    published,     \* per process: payloads handed to floodsub.publish, in order
    inlog,         \* per process: FloodsubEvent::Message events handled, in order
    foreign_sent   \* payloads the outsider has published

vars == <<status, connected, response_chan, init_chan, exit_chan, timer, ctrlc,
          stdin_read, partial_view, inflight, console, published, inlog,
          foreign_sent>>

\* the part of a process an inbound handler reads and writes
Self(p) ==
    [PEER_ID |-> p, name |-> ArgsName(p), connected |-> connected[p],
     reponse_sender |-> response_chan[p], console |-> console[p]]


RECURSIVE SumOver(_, _)
SumOver(f, S) ==
    IF S = {} THEN 0
    ELSE LET x == CHOOSE y \in S : TRUE IN f[x] + SumOver(f, S \ {x})
LinesRead == SumOver(stdin_read, Procs)
\* lines read, signals received and stdin failures so far
EnvEvents ==
    LinesRead + Cardinality({q \in Procs : ctrlc[q] # "idle"})
              + Cardinality({q \in Procs : status[q] = "panicked"})

Init ==
    /\ status = [p \in Procs |-> "running"]
    /\ connected = [p \in Procs |-> HashMap_new]
    /\ response_chan = [p \in Procs |-> << >>]
    /\ init_chan = [p \in Procs |-> 0]
    /\ exit_chan = [p \in Procs |-> 0]
    /\ timer = [p \in Procs |-> "sleeping"]
    /\ ctrlc = [p \in Procs |-> "idle"]
    /\ stdin_read = [p \in Procs |-> 0]
    /\ partial_view = [p \in Procs |-> {}]
    /\ inflight = [p \in Procs |-> EmptyBag]
    /\ console = [p \in Procs |-> << >>]
    /\ published = [p \in Procs |-> << >>]
    /\ inlog = [p \in Procs |-> << >>]
    /\ foreign_sent = 0

(***************************************************************************)
(* The inbound handler.                                                    *)
(***************************************************************************)
\* mutant: the author is never looked up
on_ChatMessage_unknown(self, source, resp) ==
    [self EXCEPT !.console = Append(@, "Unknown: " \o resp.message)]

\* a ChatMessage was parsed: print it under the author's name, if known
on_ChatMessage(self, source, resp) ==
    IF source \in DOMAIN self.connected
    THEN [self EXCEPT !.console =
              Append(@, self.connected[source] \o ": " \o resp.message)]
    ELSE [self EXCEPT !.console = Append(@, "Unknown: " \o resp.message)]

\* mutant: the receiver is compared with the display name, not the identity
on_IntroduceMyself_by_name(self, source, resp) ==
    IF resp.receiver = self.name
    THEN [self EXCEPT !.connected = HashMap_insert(@, source, resp.name)]
    ELSE self

\* mutant: an introduction is answered with an introduction
on_IntroduceMyself_replies(self, source, resp) ==
    IF resp.receiver = PeerIdToString(self.PEER_ID)
    THEN [self EXCEPT
             !.connected = HashMap_insert(@, source, resp.name),
             !.reponse_sender = Append(@, [name |-> self.name, receiver |-> source])]
    ELSE self

\* mutant: the receiver is not checked
on_IntroduceMyself_unfiltered(self, source, resp) ==
    [self EXCEPT !.connected = HashMap_insert(@, source, resp.name)]

\* an IntroduceMyself was parsed: keep it when it is addressed to this process
on_IntroduceMyself(self, source, resp) ==
    IF resp.receiver = PeerIdToString(self.PEER_ID)
    THEN [self EXCEPT !.connected = HashMap_insert(@, source, resp.name)]
    ELSE self

\* mutant: the introduction is queued twice
on_SayHello_joined_twice(self, source, resp) ==
    [self EXCEPT
        !.console = Append(@, resp.name \o " has joined the chat"),
        !.connected = HashMap_insert(@, source, resp.name),
        !.reponse_sender = Append(Append(@, [name |-> self.name, receiver |-> source]),
                                  [name |-> self.name, receiver |-> source])]

\* a SayHello was parsed, with hello: print, insert, queue the introduction
on_SayHello_joined(self, source, resp) ==
    [self EXCEPT
        !.console = Append(@, resp.name \o " has joined the chat"),
        !.connected = HashMap_insert(@, source, resp.name),
        !.reponse_sender = Append(@, [name |-> self.name, receiver |-> source])]

\* mutant: the line names the peer as the table knows it, and is printed
\* only for a peer the table holds
on_SayHello_left_table_name(self, source, resp) ==
    IF source \in DOMAIN self.connected
    THEN [self EXCEPT
             !.console = Append(@, self.connected[source] \o " has left the chat"),
             !.connected = HashMap_remove(@, source)]
    ELSE self

\* mutant: a departure is answered with an introduction
on_SayHello_left_replies(self, source, resp) ==
    [self EXCEPT
        !.console = Append(@, resp.name \o " has left the chat"),
        !.connected = HashMap_remove(@, source),
        !.reponse_sender = Append(@, [name |-> self.name, receiver |-> source])]

\* mutant: every entry that holds the departing name is removed
on_SayHello_left_by_value(self, source, resp) ==
    [self EXCEPT
        !.console = Append(@, resp.name \o " has left the chat"),
        !.connected = [k \in {x \in DOMAIN @ : @[x] # resp.name} |-> @[k]]]

\* mutant: the entry is removed under the departing name, not the source
on_SayHello_left_by_name(self, source, resp) ==
    [self EXCEPT
        !.console = Append(@, resp.name \o " has left the chat"),
        !.connected = HashMap_remove(@, resp.name)]

\* a SayHello was parsed, without hello: print, remove
on_SayHello_left(self, source, resp) ==
    [self EXCEPT
        !.console = Append(@, resp.name \o " has left the chat"),
        !.connected = HashMap_remove(@, source)]

\* mutant: SayHello is tried before IntroduceMyself
inject_event_Floodsub_hello_first(self, msg) ==
    LET source == PeerIdToString(msg.source)
        chat == from_slice_ChatMessage(msg.data)
        intro == from_slice_IntroduceMyself(msg.data)
        hello == from_slice_SayHello(msg.data)
    IN  IF chat.ok THEN on_ChatMessage(self, source, chat)
        ELSE IF hello.ok THEN
            IF hello.hello
            THEN on_SayHello_joined(self, source, hello)
            ELSE on_SayHello_left(self, source, hello)
        ELSE IF intro.ok THEN on_IntroduceMyself(self, source, intro)
        ELSE self

\* impl NetworkBehaviourEventProcess<FloodsubEvent> for AppBehaviour
inject_event_Floodsub(self, msg) ==
    LET source == PeerIdToString(msg.source)
        chat == from_slice_ChatMessage(msg.data)
        intro == from_slice_IntroduceMyself(msg.data)
        hello == from_slice_SayHello(msg.data)
    IN  IF chat.ok THEN on_ChatMessage(self, source, chat)
        ELSE IF intro.ok THEN on_IntroduceMyself(self, source, intro)
        ELSE IF hello.ok THEN
            IF hello.hello
            THEN on_SayHello_joined(self, source, hello)
            ELSE on_SayHello_left(self, source, hello)
        ELSE self

(***************************************************************************)
(* The transport, as the event loop sees it.                               *)
(***************************************************************************)
Message(source, data) == [source |-> source, data |-> data]

\* the processes a payload published by p is flooded to
Targets(p) == {q \in Procs : q # p /\ q \in partial_view[p] /\ status[q] = "running"}

\* swarm.behaviour_mut().floodsub.publish(CHAT_TOPIC.clone(), json.as_bytes())
floodsub_publish(p, data) ==
    /\ inflight' = [q \in Procs |->
                       IF q \in Targets(p)
                       THEN inflight[q] (+) SetToBag({Message(p, data)})
                       ELSE inflight[q]]
    /\ published' = [published EXCEPT ![p] = Append(@, data)]

\* payloads of the outsider: every JSON object over the protocol's field names
ForeignNames == {"mallory", "eve"}
FieldNames == {"message", "name", "hello", "receiver"}
FieldValues(f) ==
    CASE f = "message" -> {JString(line) : line \in InputLines}
      [] f = "name" -> {JString(n) : n \in ForeignNames}
      [] f = "hello" -> {JBool(b) : b \in BOOLEAN}
      [] OTHER -> {JString(PeerIdToString(q)) : q \in Procs}
ForeignPayloads ==
    UNION {{d \in [D -> UNION {FieldValues(f) : f \in FieldNames}] :
               \A f \in D : d[f] \in FieldValues(f)} : D \in SUBSET FieldNames}

\* payloads of any shape: objects whose fields may hold a value of another
\* JSON type than the schemas give them, and arrays of up to two values
AnyValues(f) ==
    CASE f = "message" -> {JString(line) : line \in InputLines} \cup {JBool(TRUE)}
      [] f = "name" -> {JString("mallory"), JBool(TRUE)}
      [] f = "hello" -> {JBool(b) : b \in BOOLEAN} \cup {JString("true")}
      [] OTHER -> {JString(PeerIdToString(q)) : q \in Procs} \cup {JBool(TRUE)}
AnyObjects ==
    UNION {{d \in [D -> UNION {AnyValues(f) : f \in FieldNames}] :
               \A f \in D : d[f] \in AnyValues(f)} : D \in SUBSET FieldNames}
ArrayValues ==
    {JString("hi"), JString("mallory"), JString(PeerIdToString(1)), JBool(TRUE),
     JBool(FALSE)}
AnyArrays ==
    {JArray(elements) : elements \in UNION {[1..n -> ArrayValues] : n \in 0..2}}
AnyPayloads == AnyObjects \cup AnyArrays

(***************************************************************************)
(* The event loop of main(): one action per select! branch and handler.    *)
(***************************************************************************)
TimerFire_twice(p) ==
    /\ status[p] = "running"
    /\ timer[p] = "sleeping"
    /\ timer' = [timer EXCEPT ![p] = "done"]
    /\ init_chan' = [init_chan EXCEPT ![p] = @ + 2]
    /\ UNCHANGED <<status, connected, response_chan, exit_chan, ctrlc, stdin_read,
                   partial_view, inflight, console, published, inlog, foreign_sent>>

\* spawn(async { sleep(1s); init_sender.send(true) })
TimerFire(p) ==
    /\ status[p] = "running"
    /\ timer[p] = "sleeping"
    /\ timer' = [timer EXCEPT ![p] = "done"]
    /\ init_chan' = [init_chan EXCEPT ![p] = @ + 1]
    /\ UNCHANGED <<status, connected, response_chan, exit_chan, ctrlc, stdin_read,
                   partial_view, inflight, console, published, inlog, foreign_sent>>

\* _init = init_rcv.recv() => EventType::Init
EventInit(p) ==
    /\ status[p] = "running"
    /\ init_chan[p] > 0
    /\ init_chan' = [init_chan EXCEPT ![p] = @ - 1]
    /\ floodsub_publish(p, to_string_SayHello(ArgsName(p), TRUE))
    /\ UNCHANGED <<status, connected, response_chan, exit_chan, timer, ctrlc,
                   stdin_read, partial_view, console, inlog, foreign_sent>>

EventIntroduction_newest_first(p) ==
    /\ status[p] = "running"
    /\ response_chan[p] # << >>
    /\ response_chan' = [response_chan EXCEPT ![p] = SubSeq(@, 1, Len(@) - 1)]
    /\ floodsub_publish(p, to_string_IntroduceMyself(
                               response_chan[p][Len(response_chan[p])]))
    /\ UNCHANGED <<status, connected, init_chan, exit_chan, timer, ctrlc,
                   stdin_read, partial_view, console, inlog, foreign_sent>>

\* response = response_rcv.recv() => EventType::Introduction(resp)
EventIntroduction(p) ==
    /\ status[p] = "running"
    /\ response_chan[p] # << >>
    /\ response_chan' = [response_chan EXCEPT ![p] = Tail(@)]
    /\ floodsub_publish(p, to_string_IntroduceMyself(Head(response_chan[p])))
    /\ UNCHANGED <<status, connected, init_chan, exit_chan, timer, ctrlc,
                   stdin_read, partial_view, console, inlog, foreign_sent>>

\* line = stdin.next_line() => EventType::Input(line), a line was read
EventInput(p, line) ==
    /\ status[p] = "running"
    /\ EnvEvents < MaxEnv
    /\ stdin_read' = [stdin_read EXCEPT ![p] = @ + 1]
    /\ floodsub_publish(p, to_string_ChatMessage(line))
    /\ UNCHANGED <<status, connected, response_chan, init_chan, exit_chan, timer,
                   ctrlc, partial_view, console, inlog, foreign_sent>>

\* line = stdin.next_line() yields Err or Ok(None) (end of input): the two
\* expect() calls panic, the panic leaves main() and the process ends
StdinClosed(p) ==
    /\ status[p] = "running"
    /\ EnvEvents < MaxEnv
    /\ status' = [status EXCEPT ![p] = "panicked"]
    /\ UNCHANGED <<connected, response_chan, init_chan, exit_chan, timer, ctrlc,
                   stdin_read, partial_view, inflight, console, published, inlog,
                   foreign_sent>>

\* _exit = exit_rcv.recv() => EventType::Exit; the loop then goes on
EventExit(p) ==
    /\ status[p] = "running"
    /\ exit_chan[p] > 0
    /\ exit_chan' = [exit_chan EXCEPT ![p] = @ - 1]
    /\ floodsub_publish(p, to_string_SayHello(ArgsName(p), FALSE))
    /\ UNCHANGED <<status, connected, response_chan, init_chan, timer, ctrlc,
                   stdin_read, partial_view, console, inlog, foreign_sent>>

\* _event = swarm.select_next_some(), the swarm hands a FloodsubEvent::Message
\* to the behaviour
SwarmFloodsub(p, msg) ==
    /\ status[p] = "running"
    /\ BagIn(msg, inflight[p])
    /\ LET self == inject_event_Floodsub(Self(p), msg)
       IN  /\ connected' = [connected EXCEPT ![p] = self.connected]
           /\ response_chan' = [response_chan EXCEPT ![p] = self.reponse_sender]
           /\ console' = [console EXCEPT ![p] = self.console]
    /\ inflight' = [inflight EXCEPT ![p] = @ (-) SetToBag({msg})]
    /\ inlog' = [inlog EXCEPT ![p] = Append(@, msg)]
    /\ UNCHANGED <<status, init_chan, exit_chan, timer, ctrlc, stdin_read,
                   partial_view, published, foreign_sent>>

\* impl NetworkBehaviourEventProcess<MdnsEvent>: MdnsEvent::Discovered
inject_event_Discovered(view, discovered_list) == view \cup discovered_list

\* MdnsEvent::Expired; has_node: the expired peers mdns still knows an address of
inject_event_Expired(view, expired_list, has_node) == view \ (expired_list \ has_node)

SwarmMdnsDiscovered(p, discovered_list) ==
    /\ status[p] = "running"
    /\ partial_view' = [partial_view EXCEPT
                           ![p] = inject_event_Discovered(@, discovered_list)]
    /\ UNCHANGED <<status, connected, response_chan, init_chan, exit_chan, timer,
                   ctrlc, stdin_read, inflight, console, published, inlog,
                   foreign_sent>>

SwarmMdnsExpired_forgets(p, expired_list, has_node) ==
    /\ status[p] = "running"
    /\ partial_view' = [partial_view EXCEPT
                           ![p] = inject_event_Expired(@, expired_list, has_node)]
    /\ connected' = [connected EXCEPT
                        ![p] = [k \in DOMAIN @ \ {PeerIdToString(q) : q \in expired_list}
                                  |-> @[k]]]
    /\ UNCHANGED <<status, response_chan, init_chan, exit_chan, timer,
                   ctrlc, stdin_read, inflight, console, published, inlog,
                   foreign_sent>>

SwarmMdnsExpired(p, expired_list, has_node) ==
    /\ status[p] = "running"
    /\ partial_view' = [partial_view EXCEPT
                           ![p] = inject_event_Expired(@, expired_list, has_node)]
    /\ UNCHANGED <<status, connected, response_chan, init_chan, exit_chan, timer,
                   ctrlc, stdin_read, inflight, console, published, inlog,
                   foreign_sent>>

(***************************************************************************)
(* The Ctrl-C handler thread.                                              *)
(***************************************************************************)
\* ctrlc::set_handler closure, first half: exit_sender.send(true), then sleep
CtrlC(p) ==
    /\ status[p] = "running"
    /\ ctrlc[p] = "idle"
    /\ EnvEvents < MaxEnv
    /\ exit_chan' = [exit_chan EXCEPT ![p] = @ + 1]
    /\ ctrlc' = [ctrlc EXCEPT ![p] = "sleeping"]
    /\ UNCHANGED <<status, connected, response_chan, init_chan, timer, stdin_read,
                   partial_view, inflight, console, published, inlog, foreign_sent>>

\* second half: the 500 ms have passed, process::exit(0x0)
GraceElapsed(p) ==
    /\ status[p] = "running"
    /\ ctrlc[p] = "sleeping"
    /\ ctrlc' = [ctrlc EXCEPT ![p] = "exited"]
    /\ status' = [status EXCEPT ![p] = "exited"]
    /\ UNCHANGED <<connected, response_chan, init_chan, exit_chan, timer, stdin_read,
                   partial_view, inflight, console, published, inlog, foreign_sent>>

(***************************************************************************)
(* The outsider publishes a payload that reaches process q.                *)
(***************************************************************************)
ForeignPublish(q, data) ==
    /\ status[q] = "running"
    /\ foreign_sent < MaxForeign
    /\ foreign_sent' = foreign_sent + 1
    /\ inflight' = [inflight EXCEPT ![q] = @ (+) SetToBag({Message(Outsider, data)})]
    /\ UNCHANGED <<status, connected, response_chan, init_chan, exit_chan, timer,
                   ctrlc, stdin_read, partial_view, console, published, inlog>>

\* the outsider publishes a payload of any shape that reaches process q
ForeignPublishAny(q, data) ==
    /\ status[q] = "running"
    /\ foreign_sent < MaxAny
    /\ foreign_sent' = foreign_sent + 1
    /\ inflight' = [inflight EXCEPT ![q] = @ (+) SetToBag({Message(Outsider, data)})]
    /\ UNCHANGED <<status, connected, response_chan, init_chan, exit_chan, timer,
                   ctrlc, stdin_read, partial_view, console, published, inlog>>

\* the processes among themselves: timers, local input, signals, discovery
Next ==
    \E p \in Procs :
        \/ TimerFire(p)
        \/ EventInit(p)
        \/ EventIntroduction(p)
        \/ \E line \in InputLines : EventInput(p, line)
        \/ StdinClosed(p)
        \/ EventExit(p)
        \/ \E msg \in BagToSet(inflight[p]) : SwarmFloodsub(p, msg)
        \/ \E l \in SUBSET (Procs \ {p}) : l # {} /\ SwarmMdnsDiscovered(p, l)
        \/ \E l \in SUBSET (Procs \ {p}) : \E h \in SUBSET l :
               l # {} /\ SwarmMdnsExpired(p, l, h)
        \/ CtrlC(p)
        \/ GraceElapsed(p)

Spec == Init /\ [][Next]_vars

\* the same processes under the scheduling the runtime gives them: the
\* spawned timer task wakes up after its sleep, and the init and swarm branches
\* of select! are taken when they stay ready (tokio polls the branches of
\* select! in random order)
Fairness ==
    \A p \in Procs :
        /\ WF_vars(TimerFire(p))
        /\ WF_vars(EventInit(p))
        /\ WF_vars(\E msg \in BagToSet(inflight[p]) : SwarmFloodsub(p, msg))

SpecLive == Spec /\ Fairness

\* the processes under traffic from the outsider, before their timers fire
NextForeign ==
    \E p \in Procs :
        \/ \E data \in ForeignPayloads : ForeignPublish(p, data)
        \/ \E msg \in BagToSet(inflight[p]) : SwarmFloodsub(p, msg)
        \/ EventIntroduction(p)

SpecForeign == Init /\ [][NextForeign]_vars

\* announcements and introductions of the outsider that carry the name of a
\* modelled process and the identities of the modelled processes
SpoofPayloads ==
    {to_string_SayHello(ArgsName(1), hello) : hello \in BOOLEAN}
        \cup {to_string_IntroduceMyself([name |-> ArgsName(1),
                                         receiver |-> PeerIdToString(r)]) :
                  r \in Procs}

\* the processes announce and introduce themselves to each other while the
\* outsider publishes under their names
NextSpoof ==
    \E p \in Procs :
        \/ TimerFire(p)
        \/ EventInit(p)
        \/ EventIntroduction(p)
        \/ \E msg \in BagToSet(inflight[p]) : SwarmFloodsub(p, msg)
        \/ SwarmMdnsDiscovered(p, Procs \ {p})
        \/ \E data \in SpoofPayloads : ForeignPublish(p, data)

SpecSpoof == Init /\ [][NextSpoof]_vars

\* process 1 announces itself to process 2 while the outsider publishes to
\* process 2, whose response queue so comes to hold introductions to both
NextQueue ==
    \/ TimerFire(1)
    \/ EventInit(1)
    \/ SwarmMdnsDiscovered(1, {2})
    \/ \E data \in SpoofPayloads : ForeignPublish(2, data)
    \/ \E p \in Procs :
           \/ \E msg \in BagToSet(inflight[p]) : SwarmFloodsub(p, msg)
           \/ EventIntroduction(p)

\* under the scheduling of the loop: a select! branch that stays ready is
\* taken (tokio polls the branches of select! in random order)
SpecQueueLive ==
    /\ Init /\ [][NextQueue]_vars
    /\ \A p \in Procs :
           /\ WF_vars(EventIntroduction(p))
           /\ WF_vars(EventInit(p))
           /\ WF_vars(\E msg \in BagToSet(inflight[p]) : SwarmFloodsub(p, msg))

\* the decoding of inbound payloads of any shape
NextCodec ==
    \E p \in Procs :
        \/ \E data \in AnyPayloads : ForeignPublishAny(p, data)
        \/ \E msg \in BagToSet(inflight[p]) : SwarmFloodsub(p, msg)
        \/ EventIntroduction(p)

SpecCodec == Init /\ [][NextCodec]_vars

(***************************************************************************)
(* Vocabulary of the properties: the kind of a payload as the protocol     *)
(* defines it, the table as a lookup by identity, the step that handles an *)
(* inbound message.                                                        *)
(***************************************************************************)
IsChat(data) == HasField(data, "message", "string")
IsIntroduction(data) ==
    /\ ~IsChat(data)
    /\ HasField(data, "name", "string") /\ HasField(data, "receiver", "string")
IsPresence(data) ==
    /\ ~IsChat(data) /\ ~IsIntroduction(data)
    /\ HasField(data, "name", "string") /\ HasField(data, "hello", "bool")
IsJoin(data) == IsPresence(data) /\ data["hello"].v = "true"
IsLeave(data) == IsPresence(data) /\ data["hello"].v = "false"

Range(seq) == {seq[i] : i \in 1..Len(seq)}
Present(table, P) == PeerIdToString(P) \in DOMAIN table
Lookup(table, P) == table[PeerIdToString(P)]

\* this step of p handles one inbound message, HandledMsg(p)
Handles(p) == Len(inlog'[p]) = Len(inlog[p]) + 1
HandledMsg(p) == inlog'[p][Len(inlog'[p])]

Join(p) == to_string_SayHello(ArgsName(p), TRUE)
Leave(p) == to_string_SayHello(ArgsName(p), FALSE)

\* a has announced itself, b has handled the announcement, a has handled an
\* Introduction b published, neither has handled a departure of the other
HandshakeDone(a, b) ==
    /\ Join(a) \in Range(published[a])
    /\ Message(a, Join(a)) \in Range(inlog[b])
    /\ \E m \in Range(inlog[a]) : m.source = b /\ IsIntroduction(m.data)
    /\ \A m \in Range(inlog[b]) : ~(m.source = a /\ IsLeave(m.data))
    /\ \A m \in Range(inlog[a]) : ~(m.source = b /\ IsLeave(m.data))

\* C1: once a's arrival announcement has been handled by b and an Introduction
\* published by b has been handled by a, with no departure of either handled by
\* the other, b's table maps a to a's name and a's table maps b to b's name:
\* the receiver b wrote is the identity a compares it with.
C1_JoinHandshake ==
    \A a \in Procs : \A b \in Procs \ {a} :
        HandshakeDone(a, b) =>
            /\ Present(connected[b], a) /\ Lookup(connected[b], a) = ArgsName(a)
            /\ Present(connected[a], b) /\ Lookup(connected[a], b) = ArgsName(b)

C1_Witness ==
    /\ HandshakeDone(1, 2)
    /\ Lookup(connected[2], 1) = "alice"
    /\ Lookup(connected[1], 2) = "bob"

\* C2: handling Presence{joining=true, name=N} from a source P that has no
\* entry leaves lookup(P) = N and appends exactly one
\* Introduction{name=self.name, receiver=P} to the response queue.
C2_JoinFromUnknownPeer ==
    [][\A p \in Procs :
          (Handles(p) /\ IsJoin(HandledMsg(p).data)
                      /\ ~Present(connected[p], HandledMsg(p).source)) =>
              /\ Present(connected'[p], HandledMsg(p).source)
              /\ Lookup(connected'[p], HandledMsg(p).source)
                     = HandledMsg(p).data["name"].v
              /\ response_chan'[p] =
                     Append(response_chan[p],
                            [name |-> ArgsName(p),
                             receiver |-> PeerIdToString(HandledMsg(p).source)])]_vars

C2_Witness ==
    /\ inlog[2] = <<Message(1, Join(1))>>
    /\ Lookup(connected[2], 1) = "alice"
    /\ response_chan[2] = <<[name |-> "bob", receiver |-> PeerIdToString(1)]>>

\* the messages from P that bear on P's presence at p, by position in p's log
PresenceAffecting(p, m) ==
    \/ IsPresence(m.data)
    \/ IsIntroduction(m.data) /\ m.data["receiver"].v = PeerIdToString(p)
AffectingFrom(p, P) ==
    {i \in 1..Len(inlog[p]) : inlog[p][i].source = P /\ PresenceAffecting(p, inlog[p][i])}
LastAffecting(p, P) ==
    IF AffectingFrom(p, P) = {} THEN 0
    ELSE CHOOSE i \in AffectingFrom(p, P) : \A j \in AffectingFrom(p, P) : j <= i

\* C3: in every state, P has an entry in p's table exactly when the most recent
\* presence-affecting message p handled from source P (a Presence, or an
\* Introduction addressed to p) exists and is not a departure, and the entry is
\* the name that message carries; the table has no other keys.
C3_TableIsLastAnnouncement ==
    \A p \in Procs :
        /\ DOMAIN connected[p] \subseteq {PeerIdToString(P) : P \in PeerIds}
        /\ \A P \in PeerIds :
               IF LastAffecting(p, P) = 0 \/ IsLeave(inlog[p][LastAffecting(p, P)].data)
               THEN ~Present(connected[p], P)
               ELSE /\ Present(connected[p], P)
                    /\ Lookup(connected[p], P) =
                           inlog[p][LastAffecting(p, P)].data["name"].v

C3_Witness ==
    /\ inlog[1] = <<Message(Outsider, to_string_SayHello("mallory", TRUE)),
                    Message(Outsider, to_string_SayHello("eve", TRUE))>>
    /\ Lookup(connected[1], Outsider) = "eve"

\* the table agrees with `was` on every key but that of P
SameButFor(table, was, P) ==
    /\ DOMAIN table \ {PeerIdToString(P)} = DOMAIN was \ {PeerIdToString(P)}
    /\ \A k \in DOMAIN was \ {PeerIdToString(P)} : table[k] = was[k]

\* C4: handling Presence{joining=false} from source P leaves P without entry,
\* had it one or not, changes no other entry, enqueues and publishes nothing,
\* and handling the same message again leaves the table as it is.
C4_LeaveRemovesIdempotently ==
    [][\A p \in Procs :
          (Handles(p) /\ IsLeave(HandledMsg(p).data)) =>
              /\ ~Present(connected'[p], HandledMsg(p).source)
              /\ SameButFor(connected'[p], connected[p], HandledMsg(p).source)
              /\ response_chan'[p] = response_chan[p]
              /\ published' = published
              /\ inject_event_Floodsub(Self(p)', HandledMsg(p)).connected
                     = connected'[p]]_vars

C4_Witness ==
    /\ inlog[1] = <<Message(Outsider, to_string_SayHello("mallory", TRUE)),
                    Message(Outsider, to_string_SayHello("mallory", FALSE))>>
    /\ ~Present(connected[1], Outsider)
    /\ Len(response_chan[1]) + Len(published[1]) = 1

\* C5: handling an Introduction from source P addressed to this process sets
\* P's entry to the name it carries, inserting or overwriting, and does nothing
\* else: no other entry changes, nothing is enqueued, published or printed.
C5_IntroductionToSelf ==
    [][\A p \in Procs :
          (Handles(p) /\ IsIntroduction(HandledMsg(p).data)
                      /\ HandledMsg(p).data["receiver"].v = PeerIdToString(p)) =>
              /\ Present(connected'[p], HandledMsg(p).source)
              /\ Lookup(connected'[p], HandledMsg(p).source)
                     = HandledMsg(p).data["name"].v
              /\ SameButFor(connected'[p], connected[p], HandledMsg(p).source)
              /\ response_chan'[p] = response_chan[p]
              /\ published' = published
              /\ console' = console]_vars

C5_Witness ==
    /\ inlog[1] = <<Message(Outsider, to_string_SayHello("mallory", TRUE)),
                    Message(Outsider, to_string_IntroduceMyself(
                        [name |-> "eve", receiver |-> PeerIdToString(1)]))>>
    /\ Lookup(connected[1], Outsider) = "eve"
    /\ console[1] = <<"mallory has joined the chat">>

\* C6: handling an Introduction whose receiver is not this process's identity
\* leaves the whole table unchanged and enqueues and publishes nothing.
C6_IntroductionToOther ==
    [][\A p \in Procs :
          (Handles(p) /\ IsIntroduction(HandledMsg(p).data)
                      /\ HandledMsg(p).data["receiver"].v # PeerIdToString(p)) =>
              /\ connected'[p] = connected[p]
              /\ response_chan'[p] = response_chan[p]
              /\ published' = published]_vars

C6_Witness ==
    /\ inlog[1] = <<Message(Outsider, to_string_IntroduceMyself(
                        [name |-> "mallory", receiver |-> PeerIdToString(2)]))>>
    /\ connected[1] = HashMap_new
    /\ response_chan[1] = << >>

\* C7: handling a Chat from source P appends exactly one console line, the text
\* under the name P has in the table, or under Unknown when P has no entry;
\* the table is unchanged and nothing is enqueued or published.
C7_ChatLine ==
    [][\A p \in Procs :
          (Handles(p) /\ IsChat(HandledMsg(p).data)) =>
              /\ console'[p] =
                     Append(console[p],
                            (IF Present(connected[p], HandledMsg(p).source)
                             THEN Lookup(connected[p], HandledMsg(p).source)
                             ELSE "Unknown")
                            \o ": " \o HandledMsg(p).data["message"].v)
              /\ connected'[p] = connected[p]
              /\ response_chan'[p] = response_chan[p]
              /\ published' = published]_vars

C7_Witness ==
    /\ HandshakeDone(1, 2)
    /\ inlog[2][Len(inlog[2])] = Message(1, to_string_ChatMessage("hi"))
    /\ console[2] = <<"alice has joined the chat", "alice: hi">>

\* C8: a process that has ended through the shutdown signal (process::exit
\* after the grace wait) has published its departure announcement before.
C8_DepartureBeforeExit ==
    \A p \in Procs : status[p] = "exited" => Leave(p) \in Range(published[p])

\* C9: once the departure announcement is published it stays the last payload
\* the process publishes.
C9_DepartureIsLastPublished ==
    \A p \in Procs : \A i \in 1..Len(published[p]) :
        published[p][i] = Leave(p) => i = Len(published[p])

\* C10: a process stops only through the shutdown signal: whenever it is no
\* longer running, its Ctrl-C handler has run to process::exit.
C10_OnlyShutdownEndsLoop ==
    \A p \in Procs : status[p] # "running" => ctrlc[p] = "exited"

\* the positions of the arrival announcement among the payloads p published
Arrivals(p) == {i \in 1..Len(published[p]) : published[p][i] = Join(p)}

\* C11: a process publishes its arrival announcement at most once; the init
\* channel never holds more than the one Init event and, once the timer has
\* fired, that event is either still queued or has been turned into the one
\* announcement, so the channel stays empty afterwards; and a process whose
\* loop keeps running does publish the announcement.
C11_AnnouncedOnce ==
    /\ [](\A p \in Procs :
            /\ Cardinality(Arrivals(p)) <= 1
            /\ init_chan[p] <= 1
            /\ timer[p] = "sleeping" => init_chan[p] = 0 /\ Arrivals(p) = {}
            /\ timer[p] = "done" => init_chan[p] + Cardinality(Arrivals(p)) = 1)
    /\ <>(\A p \in Procs : status[p] # "running" \/ Arrivals(p) # {})

C11_Witness ==
    /\ \A p \in Procs : status[p] = "running" /\ timer[p] = "done"
    /\ \A p \in Procs : init_chan[p] = 0 /\ Cardinality(Arrivals(p)) = 1
    /\ \A p \in Procs : Len(published[p]) = 2 /\ Len(inlog[p]) = 2

\* a and b run, no shutdown signal has reached either, each has the other in
\* its flood target set, and nothing of the protocol is left to happen: both
\* timers have fired, both Init events are handled, the response queues are
\* empty and every published payload has been delivered and handled
Settled(a, b) ==
    /\ \A p \in {a, b} :
           /\ status[p] = "running" /\ ctrlc[p] = "idle" /\ exit_chan[p] = 0
           /\ timer[p] = "done" /\ init_chan[p] = 0
           /\ response_chan[p] = << >> /\ inflight[p] = EmptyBag
    /\ b \in partial_view[a] /\ a \in partial_view[b]

Converged(a, b) ==
    /\ Present(connected[a], b) /\ Lookup(connected[a], b) = ArgsName(b)
    /\ Present(connected[b], a) /\ Lookup(connected[b], a) = ArgsName(a)

\* C12: two processes that keep running without a shutdown signal and have
\* become mutually reachable end with each other's name in their tables: once
\* every payload is delivered and nothing is left to publish, a's table maps b
\* to b's name and b's table maps a to a's name.
C12_Convergence ==
    \A a \in Procs : \A b \in Procs \ {a} : Settled(a, b) => Converged(a, b)

\* C13: handling an inbound payload that matches none of the three schemas
\* changes nothing: the table, the response queue and the console stay as they
\* were, nothing is published and the process keeps running.
C13_UnparseableIgnored ==
    [][\A p \in Procs :
          (Handles(p) /\ ~IsChat(HandledMsg(p).data)
                      /\ ~IsIntroduction(HandledMsg(p).data)
                      /\ ~IsPresence(HandledMsg(p).data)) =>
              /\ connected'[p] = connected[p]
              /\ response_chan'[p] = response_chan[p]
              /\ console'[p] = console[p]
              /\ published' = published
              /\ status'[p] = "running"]_vars

\* C14: a step that changes a flood target set (a discovery or an expiry
\* reported by mdns) leaves every table as it was, so a peer that becomes
\* unreachable without a departure keeps its entry; a step that handles an
\* inbound message leaves every flood target set as it was.
C14_ReachabilityApartFromPresence ==
    [][/\ partial_view' # partial_view => connected' = connected
       /\ \A p \in Procs : Handles(p) => partial_view' = partial_view]_vars

\* both have handled the other's announcement or introduction, which took each
\* in the other's flood target set, and both have lost the other since
C14_Witness ==
    /\ Present(connected[1], 2) /\ Present(connected[2], 1)
    /\ partial_view[1] = {} /\ partial_view[2] = {}
    /\ \A p \in Procs : status[p] = "running" /\ published[p] # << >>

\* a payload as a set of fields: a JSON object in which every protocol field
\* it carries holds a value of the type the schemas give that field
SchemaType(f) == IF f = "hello" THEN "bool" ELSE "string"
IsFieldSet(data) ==
    /\ DOMAIN data \subseteq FieldNames
    /\ \A f \in DOMAIN data : data[f].t = SchemaType(f)

\* what handling a payload of each kind does to the process
HandledAsChat(p) ==
    /\ console'[p] =
           Append(console[p],
                  (IF Present(connected[p], HandledMsg(p).source)
                   THEN Lookup(connected[p], HandledMsg(p).source)
                   ELSE "Unknown") \o ": " \o HandledMsg(p).data["message"].v)
    /\ connected'[p] = connected[p] /\ response_chan'[p] = response_chan[p]
HandledAsIntroduction(p) ==
    /\ console'[p] = console[p] /\ response_chan'[p] = response_chan[p]
    /\ IF HandledMsg(p).data["receiver"].v = PeerIdToString(p)
       THEN /\ Present(connected'[p], HandledMsg(p).source)
            /\ Lookup(connected'[p], HandledMsg(p).source)
                   = HandledMsg(p).data["name"].v
       ELSE connected'[p] = connected[p]
HandledAsPresence(p) ==
    /\ Len(console'[p]) = Len(console[p]) + 1
    /\ console'[p][Len(console'[p])] =
           HandledMsg(p).data["name"].v
               \o (IF HandledMsg(p).data["hello"].v = "true"
                   THEN " has joined the chat" ELSE " has left the chat")
    /\ Present(connected'[p], HandledMsg(p).source)
           <=> HandledMsg(p).data["hello"].v = "true"
HandledAsFailure(p) ==
    /\ console'[p] = console[p] /\ response_chan'[p] = response_chan[p]
    /\ connected'[p] = connected[p]

\* C15: a payload, taken as the set of fields it carries, is handled as Chat
\* when it carries `message`, whatever else it carries; otherwise as
\* Introduction when it carries `name` and `receiver`, also when it carries
\* `hello` too; otherwise as Presence when it carries `name` and `hello`;
\* otherwise as a parse failure.
C15_DecodingPriority ==
    [][\A p \in Procs :
          (Handles(p) /\ IsFieldSet(HandledMsg(p).data)) =>
              LET fields == DOMAIN HandledMsg(p).data
              IN  IF "message" \in fields THEN HandledAsChat(p)
                  ELSE IF {"name", "receiver"} \subseteq fields
                       THEN HandledAsIntroduction(p)
                  ELSE IF {"name", "hello"} \subseteq fields THEN HandledAsPresence(p)
                  ELSE HandledAsFailure(p)]_vars

\* a payload carrying name, receiver and hello has been handled as an
\* Introduction to the receiver: an entry, no console line, no reply
C15_Witness ==
    /\ Len(inlog[1]) = 1
    /\ inlog[1][1].source = Outsider
    /\ IsFieldSet(inlog[1][1].data)
    /\ DOMAIN inlog[1][1].data = {"name", "receiver", "hello"}
    /\ inlog[1][1].data["hello"].v = "true"
    /\ Present(connected[1], Outsider) /\ Lookup(connected[1], Outsider) = "mallory"
    /\ console[1] = << >> /\ response_chan[1] = << >> /\ published[1] = << >>

\* the payload p publishes in this step
PublishedNow(p) == published'[p][Len(published'[p])]

\* C16: what a process encodes and publishes decodes to the same kind with
\* the same field values: the arrival and the departure announcement (Presence
\* with either value of joining), the Introduction taken from the response
\* queue, and the Chat of a line read.
C16_RoundTrip ==
    [][\A p \in Procs :
          /\ init_chan'[p] < init_chan[p] =>
                 decode(PublishedNow(p)) =
                     [kind |-> "SayHello", name |-> ArgsName(p), hello |-> TRUE]
          /\ exit_chan'[p] < exit_chan[p] =>
                 decode(PublishedNow(p)) =
                     [kind |-> "SayHello", name |-> ArgsName(p), hello |-> FALSE]
          /\ Len(response_chan'[p]) < Len(response_chan[p]) =>
                 decode(PublishedNow(p)) =
                     [kind |-> "IntroduceMyself",
                      name |-> Head(response_chan[p]).name,
                      receiver |-> Head(response_chan[p]).receiver]
          /\ stdin_read'[p] > stdin_read[p] =>
                 /\ decode(PublishedNow(p)).kind = "ChatMessage"
                 /\ decode(PublishedNow(p)).message \in InputLines
                 /\ to_string_ChatMessage(decode(PublishedNow(p)).message)
                        = PublishedNow(p)]_vars

\* process 1 has published an announcement, an Introduction and a Chat, and
\* process 2 has handled all three
C16_Witness ==
    /\ {decode(published[1][i]).kind : i \in 1..Len(published[1])}
           = {"SayHello", "IntroduceMyself", "ChatMessage"}
    /\ Len(inlog[2]) = 3
    /\ console[2] = <<"alice has joined the chat", "alice: hi">>
    /\ Lookup(connected[2], 1) = "alice"

\* C17: handling an inbound payload whose transport source is P never
\* inserts, overwrites or removes the entry of a peer other than P, whatever
\* name or receiver the payload carries.
C17_TableIsolatedBySource ==
    [][\A p \in Procs :
          Handles(p) =>
              \A Q \in PeerIds \ {HandledMsg(p).source} :
                  /\ Present(connected'[p], Q) <=> Present(connected[p], Q)
                  /\ Present(connected[p], Q) =>
                         Lookup(connected'[p], Q) = Lookup(connected[p], Q)]_vars

\* process 2 holds process 1 under its name after the outsider announced the
\* departure of that name
C17_Witness ==
    /\ Message(1, Join(1)) \in Range(inlog[2])
    /\ Len(inlog[2]) >= 2
    /\ inlog[2][Len(inlog[2])] = Message(Outsider, Leave(1))
    /\ Present(connected[2], 1) /\ Lookup(connected[2], 1) = ArgsName(1)
    /\ ~Present(connected[2], Outsider)

\* the step of p that handles an inbound message publishes nothing and
\* enqueues one Introduction to the source when the message decodes to an
\* arrival announcement, nothing otherwise
ReactsOnlyToJoin(p) ==
    Handles(p) =>
        /\ published' = published
        /\ response_chan'[p] =
               IF /\ decode(HandledMsg(p).data).kind = "SayHello"
                  /\ decode(HandledMsg(p).data).hello
               THEN Append(response_chan[p],
                           [name |-> ArgsName(p),
                            receiver |-> PeerIdToString(HandledMsg(p).source)])
               ELSE response_chan[p]

\* a step in which p publishes handles the Init event, the Exit event, a line
\* read or the head of the response queue
PublishesOnlyOnEvent(p) ==
    published'[p] # published[p] =>
        \/ init_chan'[p] < init_chan[p]
        \/ exit_chan'[p] < exit_chan[p]
        \/ stdin_read'[p] > stdin_read[p]
        \/ response_chan[p] # << >> /\ response_chan'[p] = Tail(response_chan[p])

PublishedLen == [p \in Procs |-> Len(published[p])]
NProcs == Cardinality(Procs)
\* N arrivals, N * (N - 1) Introductions, N departures
StormBound == NProcs + NProcs * (NProcs - 1) + NProcs

IsJoinMsg(m) == decode(m.data).kind = "SayHello" /\ decode(m.data).hello
Enqueued(p) ==
    LET joins == SelectSeq(inlog[p], IsJoinMsg)
    IN  [i \in 1..Len(joins) |->
            [name |-> ArgsName(p), receiver |-> PeerIdToString(joins[i].source)]]
\* the Introductions p has published so far, in order
IsIntroductionPayload(data) == decode(data).kind = "IntroduceMyself"
PublishedIntroductions(p) == SelectSeq(published[p], IsIntroductionPayload)
EncodedSeq(q) == [i \in 1..Len(q) |-> to_string_IntroduceMyself(q[i])]

\* C19: the Introductions a process has published followed by those still in
\* its response queue are the Introductions its inbound handler enqueued, in
\* the order it enqueued them (each published once, first in first out); the
\* handling step itself publishes nothing; and while the process runs, the
\* n-th Introduction enqueued does get published.
C19_QueuedIntroductionsPublished ==
    /\ [](\A p \in Procs :
            EncodedSeq(Enqueued(p))
                = PublishedIntroductions(p) \o EncodedSeq(response_chan[p]))
    /\ [][\A p \in Procs : Handles(p) => published' = published]_vars
    /\ \A p \in Procs : \A n \in 1..(MaxForeign + 1) :
           (Len(Enqueued(p)) >= n) ~> (Len(PublishedIntroductions(p)) >= n)

\* process 2 has handled the arrival of process 1 and then one of the
\* outsider, and has published the two Introductions in that order
C19_Witness ==
    /\ Len(inlog[2]) = 2
    /\ inlog[2][1] = Message(1, Join(1))
    /\ inlog[2][2] = Message(Outsider, Join(1))
    /\ PublishedIntroductions(2) =
           <<to_string_IntroduceMyself([name |-> "bob", receiver |-> PeerIdToString(1)]),
             to_string_IntroduceMyself([name |-> "bob",
                                        receiver |-> PeerIdToString(Outsider)])>>
    /\ response_chan[2] = << >>

\* C20: handling Presence{joining=true, name} prints exactly the line
\* "{name} has joined the chat" and handling Presence{joining=false, name}
\* exactly "{name} has left the chat", the name being the one in the message,
\* whether or not the source has an entry and whatever name that entry holds;
\* handling an Introduction prints nothing.
C20_PresenceLines ==
    [][\A p \in Procs :
          /\ (Handles(p) /\ IsJoin(HandledMsg(p).data)) =>
                 console'[p] = Append(console[p],
                                      HandledMsg(p).data["name"].v
                                          \o " has joined the chat")
          /\ (Handles(p) /\ IsLeave(HandledMsg(p).data)) =>
                 console'[p] = Append(console[p],
                                      HandledMsg(p).data["name"].v
                                          \o " has left the chat")
          /\ (Handles(p) /\ IsIntroduction(HandledMsg(p).data)) =>
                 console'[p] = console[p]]_vars

\* a departure under another name than the one the table held for the source
C20_Witness ==
    /\ inlog[1] = <<Message(Outsider, to_string_SayHello("mallory", TRUE)),
                    Message(Outsider, to_string_SayHello("eve", FALSE))>>
    /\ console[1] = <<"mallory has joined the chat", "eve has left the chat">>
    /\ ~Present(connected[1], Outsider)

=============================================================================
